---- MODULE Spec2Model ----
(***************************************************************************)
(* A model of the proxer-rs client: the session (Proxer), the endpoint     *)
(* functions of manga.rs, notification.rs and lib.rs, and the              *)
(* send / decode / check_error / check_data sequence each of them runs.    *)
(*                                                                         *)
(* One endpoint call is a sequence of steps, one action per statement of   *)
(* the function body:                                                      *)
(*    <function>   evaluates url!(..) and param_build!(..)                 *)
(*    connect      self.proxer.connect(&url, &body)?                       *)
(*    from_reader  serde_json::from_reader(response)?                      *)
(*    check_error  check_error!(..)                                        *)
(*    check_data   check_data!(..)   (Ok(()) for delete_notification)      *)
(***************************************************************************)
EXTENDS Integers, Sequences, FiniteSets, TLC

VARIABLES
    proc,      \* "init" before Proxer::new, "ready" after it, "panicked" once aborted
    header,    \* Proxer.header: a set of <<name, value>> pairs
    api_key,   \* the argument Proxer::new was called with
    call,      \* the endpoint call in progress or last returned: [fn, args]
    pc,        \* the statement the call in progress executes next ("idle": none)
    loc_url,   \* local `url` of the call
    loc_body,  \* local `body` of the call
    reqs,      \* the requests the call has handed to the HTTP client
    response,  \* local `response`/`result`: what connect returned
    data,      \* local `data`: the decoded struct
    steps,     \* the statements the call has executed, in order
    result     \* the value the call returned

vars == <<proc, header, api_key, call, pc, loc_url, loc_body, reqs, response, data, steps, result>>

----------------------------------------------------------------------------
(* Bounds *)

MaxId == 1        \* u64 arguments (id, episode, page, limit, nid) range over 0..MaxId
MaxCode == 1      \* the `error` and `code` fields of a response range over 0..MaxCode
MaxPayload == 2   \* distinct payload values of each payload type

----------------------------------------------------------------------------
(* Option<T> *)

None == [some |-> FALSE]
Some(x) == [some |-> TRUE, v |-> x]
Opt(S) == {None} \cup {Some(x) : x \in S}

\* Option::unwrap_or_default for u64 and for String
unwrap_or_default_u64(o) == IF o.some THEN o.v ELSE 0
unwrap_or_default_str(o) == IF o.some THEN o.v ELSE ""

----------------------------------------------------------------------------
(* Constants of lib.rs.  A URL is kept parsed: scheme, host, path segments *)
(* and query pairs.                                                        *)

BASE_URL == [scheme |-> "https", host |-> "proxer.me", path |-> <<"api">>, query |-> <<>>]
API_VERSION == "v1"
USER_AGENT == "proxer-rs (https://github.com/souryo/proxer-rs, CARGO_PKG_VERSION)"
NEWS_URL == [scheme |-> "http", host |-> "proxer.me", path |-> <<"notifications">>,
             query |-> << <<"format", "json">>, <<"s", "news">>, <<"p", "1">> >>]

----------------------------------------------------------------------------
(* Values *)

ApiKeys == {"key_a", "key_b"}
U64 == 0..MaxId
Languages == {"de", "en"}
Codes == 0..MaxCode
Messages == {"invalid token"}

\* The payload type each function declares for its response.
Shapes == {"Vec<Chapter>", "String", "Vec<News>", "Vec<NewsNotification>"}
Payloads == [shape : Shapes, v : 1..MaxPayload]
Unit == [shape |-> "()", v |-> 0]

\* Result<T> with the error kinds of the error module.
Ok(x) == [kind |-> "Ok", v |-> x]
ApiError(m) == [kind |-> "Api", message |-> m]
MissingDataError == [kind |-> "MissingData"]
TransportError == [kind |-> "Transport"]
DecodeError == [kind |-> "Decode"]

\* What the server may answer: a body that is no JSON object of the expected
\* form, or a JSON object with any subset of the keys the library reads.
Garbage == [kind |-> "garbage"]
JsonBodies == [kind : {"json"}, error : Opt(Codes), code : Opt(Codes),
               message : Opt(Messages), data : Opt(Payloads),
               notifications : Opt(Payloads)]
Bodies == {Garbage} \cup JsonBodies

NoUrl == [scheme |-> "", host |-> "", path |-> <<>>, query |-> <<>>]
NoCall == [fn |-> "none"]

----------------------------------------------------------------------------
(* The macros of the macros module *)

\* url!(class, func): BASE_URL/API_VERSION/class/func
url(class, func) == [BASE_URL EXCEPT !.path = @ \o <<API_VERSION, class, func>>]

\* param_build!(k1 => o1, k2 => o2, ..): the pairs whose value is Some, in the
\* order written.  `params` is the sequence of <<key, Option<String>>>.
RECURSIVE param_build(_)
param_build(params) ==
    IF params = <<>> THEN <<>>
    ELSE LET p == Head(params)
             rest == param_build(Tail(params))
         IN  IF p[2].some THEN << <<p[1], p[2].v>> >> \o rest ELSE rest

\* Display of a u64 value inside param_build!
fmt_u64(n) == ToString(n)
fmt_opt(o) == IF o.some THEN Some(fmt_u64(o.v)) ELSE None

\* check_error!(error, code, message): Some(Err(..)) when the macro returns
\* from the function, None when execution continues after it.
DefaultMessage == ""
check_error(error, code, message) ==
    IF error # code
    THEN Some(ApiError(IF message.some THEN message.v ELSE DefaultMessage))
    ELSE None

\* check_data!(data)
check_data(d) == IF d.some THEN Ok(d.v) ELSE MissingDataError

----------------------------------------------------------------------------
(* The response structs and serde_json::from_reader *)

\* The struct each function deserializes into.
StructOf(f) ==
    CASE f = "get_chapter"         -> [name |-> "Response", shape |-> "Vec<Chapter>"]
      [] f = "get_count"           -> [name |-> "Response", shape |-> "String"]
      [] f = "get_news_per_api"    -> [name |-> "Response", shape |-> "Vec<News>"]
      [] f = "delete_notification" -> [name |-> "EmptyResponse", shape |-> "()"]
      [] f = "get_news"            -> [name |-> "ProxerNews", shape |-> "Vec<NewsNotification>"]

\* An Option<T> field: a missing key is None, a value of another type is an error.
FieldFits(o, shape) == o.some => o.v.shape = shape

\* serde_json::from_reader into each struct: Some(struct), or None on a decode
\* error.  `error` is a plain u64 in every struct, so the key is required;
\* keys the struct does not have are ignored.

\* models::Response<T>: error, code, message, data
from_reader_Response(b, shape) ==
    IF b.kind # "json" \/ ~b.error.some \/ ~FieldFits(b.data, shape) THEN None
    ELSE Some([error |-> b.error.v, code |-> b.code, message |-> b.message, data |-> b.data])

\* models::EmptyResponse: error, message
from_reader_EmptyResponse(b) ==
    IF b.kind # "json" \/ ~b.error.some THEN None
    ELSE Some([error |-> b.error.v, message |-> b.message])

\* ProxerNews: error, message, notifications
from_reader_ProxerNews(b) ==
    IF b.kind # "json" \/ ~b.error.some \/ ~FieldFits(b.notifications, "Vec<NewsNotification>")
    THEN None
    ELSE Some([error |-> b.error.v, message |-> b.message, notifications |-> b.notifications])

from_reader(b, st) ==
    CASE st.name = "Response" -> from_reader_Response(b, st.shape)
      [] st.name = "EmptyResponse" -> from_reader_EmptyResponse(b)
      [] st.name = "ProxerNews" -> from_reader_ProxerNews(b)

----------------------------------------------------------------------------
(* The statements of the endpoint functions that differ per function *)

\* Variant: get_count built with the action of get_news_per_api.
UrlOf_copied(f) ==
    CASE f = "get_chapter"         -> url("manga", "chapter")
      [] f = "get_count"           -> url("notifications", "news")
      [] f = "get_news_per_api"    -> url("notifications", "news")
      [] f = "delete_notification" -> url("notifications", "delete")
      [] f = "get_news"            -> NEWS_URL

\* let url = ..
UrlOf(f) ==
    CASE f = "get_chapter"         -> url("manga", "chapter")
      [] f = "get_count"           -> url("notifications", "count")
      [] f = "get_news_per_api"    -> url("notifications", "news")
      [] f = "delete_notification" -> url("notifications", "delete")
      [] f = "get_news"            -> NEWS_URL

\* Variant: an absent `limit` is sent as its default value instead of left out.
BodyOf_default_limit(c) ==
    CASE c.fn = "get_chapter" ->
             param_build(<< <<"id", Some(fmt_u64(c.id))>>,
                            <<"episode", Some(fmt_u64(c.episode))>>,
                            <<"language", Some(c.language)>> >>)
      [] c.fn = "get_count" -> <<>>
      [] c.fn = "get_news_per_api" ->
             param_build(<< <<"p", fmt_opt(c.page)>>,
                            <<"limit", Some(fmt_u64(unwrap_or_default_u64(c.limit)))>> >>)
      [] c.fn = "delete_notification" ->
             param_build(<< <<"nid", fmt_opt(c.nid)>> >>)
      [] c.fn = "get_news" -> <<>>

\* let body = ..
BodyOf(c) ==
    CASE c.fn = "get_chapter" ->
             param_build(<< <<"id", Some(fmt_u64(c.id))>>,
                            <<"episode", Some(fmt_u64(c.episode))>>,
                            <<"language", Some(c.language)>> >>)
      [] c.fn = "get_count" -> <<>>
      [] c.fn = "get_news_per_api" ->
             param_build(<< <<"p", fmt_opt(c.page)>>, <<"limit", fmt_opt(c.limit)>> >>)
      [] c.fn = "delete_notification" ->
             param_build(<< <<"nid", fmt_opt(c.nid)>> >>)
      [] c.fn = "get_news" -> <<>>

\* The second argument of check_error!: the code `error` is compared with.
ExpectedCode(f, d) ==
    IF f \in {"get_chapter", "get_count", "get_news_per_api"}
    THEN unwrap_or_default_u64(d.code)
    ELSE 0

\* Variant: the response's message is not handed to check_error!.
MessageArg_dropped(f, d) == None

\* The third argument of check_error!.
MessageArg(f, d) ==
    IF f = "get_news" THEN Some(unwrap_or_default_str(d.message)) ELSE d.message

\* check_error!(..) as each function invokes it.
ErrorCheck(f, d) == check_error(d.error, ExpectedCode(f, d), MessageArg(f, d))

\* The field handed to check_data!.
PayloadField(f, d) == IF f = "get_news" THEN d.notifications ELSE d.data

\* Variant: the payload is cut down to its first element before it is returned.
Finish_truncated(f, d) ==
    IF f = "delete_notification" THEN Ok(Unit)
    ELSE LET p == PayloadField(f, d)
         IN  IF p.some THEN Ok([p.v EXCEPT !.v = 1]) ELSE MissingDataError

\* Variant: an absent payload is replaced by the type's default value.
Finish_default(f, d) ==
    IF f = "delete_notification" THEN Ok(Unit)
    ELSE LET p == PayloadField(f, d)
         IN  IF p.some THEN Ok(p.v) ELSE Ok([shape |-> StructOf(f).shape, v |-> 0])

\* The last expression of the function.
Finish(f, d) ==
    IF f = "delete_notification" THEN Ok(Unit) ELSE check_data(PayloadField(f, d))

----------------------------------------------------------------------------
(* Proxer *)

NoResponse == [kind |-> "none"]

\* The three headers Proxer::new sets.
NewHeaders(key) ==
    { <<"Content-Type", "application/x-www-form-urlencoded">>,
      <<"User-Agent", USER_AGENT>>,
      <<"proxer-api-token", key>> }

Init ==
    /\ proc = "init"
    /\ header = {}
    /\ api_key = ""
    /\ call = NoCall
    /\ pc = "idle"
    /\ loc_url = NoUrl
    /\ loc_body = <<>>
    /\ reqs = <<>>
    /\ response = NoResponse
    /\ data = None
    /\ steps = <<>>
    /\ result = None

\* Proxer::new(api_key).  NativeTlsClient::new() may fail; the code unwraps
\* its result, so a failure panics instead of returning Err.
new(key) ==
    /\ proc = "init"
    /\ api_key' = key
    /\ \E tls_ok \in BOOLEAN :
          IF tls_ok
          THEN proc' = "ready" /\ header' = NewHeaders(key)
          ELSE proc' = "panicked" /\ header' = header
    /\ UNCHANGED <<call, pc, loc_url, loc_body, reqs, response, data, steps, result>>

\* Variant: the API-key header is left off the request.
Request_no_token(u, h, b) ==
    [method |-> "POST", url |-> u, headers |-> {x \in h : x[1] # "proxer-api-token"}, body |-> b]

\* The request client.post(url).headers(self.header.clone()).body(body) builds.
Request(u, h, b) == [method |-> "POST", url |-> u, headers |-> h, body |-> b]

\* Entering an endpoint function: its first two statements, url and body.
Enter(c) ==
    /\ proc = "ready"
    /\ pc = "idle"
    /\ call' = c
    /\ loc_url' = UrlOf(c.fn)
    /\ loc_body' = BodyOf(c)
    /\ reqs' = <<>>
    /\ response' = NoResponse
    /\ data' = None
    /\ steps' = <<>>
    /\ result' = None
    /\ pc' = "connect"
    /\ UNCHANGED <<proc, header, api_key>>

get_chapter(id, episode, language) ==
    Enter([fn |-> "get_chapter", id |-> id, episode |-> episode, language |-> language])

get_count == Enter([fn |-> "get_count"])

get_news_per_api(page, limit) ==
    Enter([fn |-> "get_news_per_api", page |-> page, limit |-> limit])

delete_notification(nid) == Enter([fn |-> "delete_notification", nid |-> nid])

get_news == Enter([fn |-> "get_news"])

\* Variant: a failed send() is tried a second time before the error is returned.
connect_retry ==
    /\ pc = "connect"
    /\ \/ /\ reqs' = Append(Append(reqs, Request(loc_url, header, loc_body)),
                            Request(loc_url, header, loc_body))
          /\ result' = Some(TransportError)
          /\ pc' = "idle"
          /\ response' = NoResponse
       \/ \E b \in Bodies :
             /\ reqs' = Append(reqs, Request(loc_url, header, loc_body))
             /\ response' = b
             /\ pc' = "from_reader"
             /\ result' = result
    /\ steps' = Append(steps, "send")
    /\ UNCHANGED <<proc, header, api_key, call, loc_url, loc_body, data>>

\* self.connect(&url, &body)?  -- Proxer::connect sends one POST; a failure of
\* send() leaves the function through `?`.
connect ==
    /\ pc = "connect"
    /\ reqs' = Append(reqs, Request(loc_url, header, loc_body))
    /\ steps' = Append(steps, "send")
    /\ \/ /\ result' = Some(TransportError)
          /\ pc' = "idle"
          /\ response' = NoResponse
       \/ \E b \in Bodies :
             /\ response' = b
             /\ pc' = "from_reader"
             /\ result' = result
    /\ UNCHANGED <<proc, header, api_key, call, loc_url, loc_body, data>>

\* let data: .. = serde_json::from_reader(response)?
decode ==
    /\ pc = "from_reader"
    /\ steps' = Append(steps, "decode")
    /\ response' = NoResponse
    /\ LET d == from_reader(response, StructOf(call.fn))
       IN  IF d.some
           THEN data' = d /\ pc' = "check_error" /\ result' = result
           ELSE data' = data /\ pc' = "idle" /\ result' = Some(DecodeError)
    /\ UNCHANGED <<proc, header, api_key, call, loc_url, loc_body, reqs>>

\* Variant: the payload is looked at first; the error check runs only without one.
error_check_payload_first ==
    /\ pc = "check_error"
    /\ steps' = Append(steps, "check_error")
    /\ LET e == ErrorCheck(call.fn, data.v)
           has_payload == call.fn # "delete_notification" /\ PayloadField(call.fn, data.v).some
       IN  IF e.some /\ ~has_payload
           THEN pc' = "idle" /\ result' = e
           ELSE pc' = "finish" /\ result' = result
    /\ UNCHANGED <<proc, header, api_key, call, loc_url, loc_body, reqs, response, data>>

\* check_error!(..);
error_check ==
    /\ pc = "check_error"
    /\ steps' = Append(steps, "check_error")
    /\ LET e == ErrorCheck(call.fn, data.v)
       IN  IF e.some
           THEN pc' = "idle" /\ result' = e
           ELSE pc' = "finish" /\ result' = result
    /\ UNCHANGED <<proc, header, api_key, call, loc_url, loc_body, reqs, response, data>>

\* check_data!(..)  or  Ok(())
finish ==
    /\ pc = "finish"
    /\ steps' = Append(steps, IF call.fn = "delete_notification" THEN "return" ELSE "check_data")
    /\ result' = Some(Finish(call.fn, data.v))
    /\ pc' = "idle"
    /\ UNCHANGED <<proc, header, api_key, call, loc_url, loc_body, reqs, response, data>>

Next ==
    \/ \E key \in ApiKeys : new(key)
    \/ \E id \in U64, episode \in U64, language \in Languages : get_chapter(id, episode, language)
    \/ get_count
    \/ \E page \in Opt(U64), limit \in Opt(U64) : get_news_per_api(page, limit)
    \/ \E nid \in Opt(U64) : delete_notification(nid)
    \/ get_news
    \/ connect
    \/ decode
    \/ error_check
    \/ finish

Spec == Init /\ [][Next]_vars

----------------------------------------------------------------------------
(* Properties *)

C4_BodyHasExactlyProvidedParams ==
    /\ (call.fn # "none") =>
          loc_body =
            CASE call.fn = "get_chapter" ->
                    << <<"id", ToString(call.id)>>, <<"episode", ToString(call.episode)>>,
                       <<"language", call.language>> >>
              [] call.fn = "get_news_per_api" ->
                    (IF call.page.some THEN << <<"p", ToString(call.page.v)>> >> ELSE <<>>)
                    \o (IF call.limit.some THEN << <<"limit", ToString(call.limit.v)>> >> ELSE <<>>)
              [] call.fn = "delete_notification" ->
                    (IF call.nid.some THEN << <<"nid", ToString(call.nid.v)>> >> ELSE <<>>)
              [] OTHER -> <<>>
    /\ \A i \in DOMAIN reqs : reqs[i].body = loc_body

C4_Witness ==
    /\ call.fn = "get_news_per_api"
    /\ call.page = None /\ call.limit = Some(1)
    /\ Len(reqs) = 1
    /\ reqs[1].body = << <<"limit", "1">> >>

\* C5: every request of a v1 endpoint function goes to
\* https://proxer.me/api/v1/<category>/<action>, whatever the arguments.
C5_UrlIsBaseVersionCategoryAction ==
    \A i \in DOMAIN reqs :
        call.fn \in {"get_chapter", "get_count", "get_news_per_api", "delete_notification"} =>
            reqs[i].url =
                [scheme |-> "https", host |-> "proxer.me", query |-> <<>>,
                 path |-> CASE call.fn = "get_chapter" -> <<"api", "v1", "manga", "chapter">>
                            [] call.fn = "get_count" -> <<"api", "v1", "notifications", "count">>
                            [] call.fn = "get_news_per_api" -> <<"api", "v1", "notifications", "news">>
                            [] call.fn = "delete_notification" -> <<"api", "v1", "notifications", "delete">>]

C5_Witness ==
    /\ call.fn = "get_chapter" /\ call.id = 1 /\ call.episode = 0 /\ call.language = "en"
    /\ Len(reqs) = 1
    /\ reqs[1].url.path = <<"api", "v1", "manga", "chapter">>

\* C6: Proxer::new never panics; a failure to build the TLS context comes
\* back as an error value.
C6_NewNeverPanics == proc # "panicked"

\* C7: a call sends at most one request, and one that has returned, with
\* whatever outcome, has sent exactly one.
C7_OneRequestPerCall ==
    /\ Len(reqs) <= 1
    /\ (pc = "idle" /\ call.fn # "none") => Len(reqs) = 1
    /\ (pc \notin {"idle", "connect"}) => Len(reqs) = 1

C7_Witness ==
    /\ pc = "idle"
    /\ result = Some([kind |-> "Transport"])
    /\ Len(reqs) = 1

\* C8: get_news sends an HTTP GET with the query format=json, s=news, p=<page>.
C8_LegacyNewsIsHttpGet ==
    \A i \in DOMAIN reqs :
        call.fn = "get_news" =>
            /\ reqs[i].method = "GET"
            /\ reqs[i].url.scheme = "http"
            /\ Len(reqs[i].url.query) = 3
            /\ reqs[i].url.query[1] = <<"format", "json">>
            /\ reqs[i].url.query[2] = <<"s", "news">>
            /\ reqs[i].url.query[3][1] = "p"

\* C9: once constructed, the session's header set is the three headers built
\* from the key given to Proxer::new, in every state after any calls, and each
\* request sent carries exactly these three.
C9_HeadersFixedAfterConstruction ==
    LET three == { <<"Content-Type", "application/x-www-form-urlencoded">>,
                   <<"User-Agent", USER_AGENT>>,
                   <<"proxer-api-token", api_key>> }
    IN  /\ proc = "ready" => header = three
        /\ \A i \in DOMAIN reqs : reqs[i].headers = three

C9_Witness ==
    /\ pc = "idle"
    /\ result.some /\ result.v.kind = "Api"
    /\ api_key = "key_b"
    /\ <<"proxer-api-token", "key_b">> \in header
    /\ Cardinality(header) = 3
    /\ Len(reqs) = 1 /\ reqs[1].headers = header

C11_NonZeroErrorNeverOk ==
    (/\ pc = "idle"
     /\ call.fn \in {"get_chapter", "get_count", "get_news_per_api", "delete_notification"}
     /\ data.some
     /\ data.v.error # 0) =>
        ~(result.some /\ result.v.kind = "Ok")

====
